---------------------------- MODULE Spec2Model ----------------------------
(* Model of the streams.delete API method of the Pryv.io api-server          *)
(* (components/api-server/src/methods/streams.js, section DELETION).        *)
(*                                                                          *)
(* A delete request is a chain of callbacks.  Every storage call is one     *)
(* round trip to the database and is one atomic step here; the position of  *)
(* a request in the chain is req[r].pc.  The writes that the 'data'         *)
(* handlers of the streamed steps issue without waiting for their callback  *)
(* are kept in `pending` until the storage completes them.                  *)
(*                                                                          *)
(* The storage layer (userStreamsStorage, userEventsStorage,                *)
(* userEventFilesStorage) and treeUtils are not part of the sources at      *)
(* hand: their effect is taken from the filter and update documents the     *)
(* method passes them, and from the description of the data model.          *)
(*                                                                          *)
(* Specifications:                                                          *)
(*   Spec            requests of one tenant, one at a time, no failure      *)
(*   SpecFaults      one request whose storage calls may fail, re-issued    *)
(*                   after an unexpected error                              *)
(*   SpecConcurrent  two hard deletes in progress at the same time          *)
(*   SpecMerge       the two membership updates of the merge path, stopped  *)
(*                   part of the way and run again                          *)
(*   SpecOverlapping a delete of a stream and a delete of its parent        *)
(*   SpecCallbacks   one request; writes of the 'data' handlers fail before *)
(*                   the request has answered                               *)
(*   SpecMoved       one request; history rows carry earlier streamIds      *)
(*   SpecAfterError  requests one at a time, after a request that failed    *)
EXTENDS Integers, Sequences, FiniteSets, TLC

----------------------------------------------------------------------------
(* Bounds *)

\* number of delete requests issued, one after the other, in one behaviour
MaxRequests == 2
\* longest streamIds of an event in the initial state
MaxStreamIds == 2
\* most history rows of an event in the initial state
MaxHistory == 1

----------------------------------------------------------------------------
(* Values *)

\* JavaScript null / undefined (a parameter, a parentId, an attribute)
Null == "null"

StreamIds == {"A", "A/B", "A/B/C", "X"}
EventIds == {"e1", "e2"}
\* the order in which a cursor over the events collection returns documents
EventOrder == <<"e1", "e2">>

\* request slots: the requests that may be in progress at the same time
Slots == {"r1", "r2"}

DeletionModes == {"keep-everything", "keep-authors", "keep-nothing"}
\* params.mergeEventsWithParent after _.defaults
MergeValues == {"true", "false", Null}
\* the `trashed` attribute of a stream: unset, true or false
TrashedValues == {Null, "true", "false"}

Elems(s) == {s[i] : i \in DOMAIN s}

\* sequences without repetition, of length 1..n, over S
Memberships(S, n) ==
  {s \in UNION {[1..k -> S] : k \in 1..n} : \A i, j \in DOMAIN s : i # j => s[i] # s[j]}

----------------------------------------------------------------------------
(* State *)

VARIABLES
  streams,        \* streams collection: id -> [parentId, trashed], existing documents only
  events,         \* live events (no headId, not deleted): id -> [streamIds, attachments]
  history,        \* history rows (records with a headId): set of [id, headId, streamIds, attachments, min]
  files,          \* event ids that have attached files in the files storage
  nextHistoryId,  \* id of the next inserted history row
  auditSettings,  \* config.get('versioning'): [deletionMode, forceKeepHistory]
  req,            \* per slot: the request's context, params, result and closure variables
  notifs,         \* per slot: the notifications the request emitted, in order
  pending,        \* storage writes issued by 'data' handlers, not completed yet
  pre,            \* per slot: the collections as they were when the request arrived
  nreq,           \* requests issued so far
  faults,         \* the storage calls that reported an error: [slot, n, op, event], n the issue
  other           \* the documents of another tenant, V, in the same collections

db == <<streams, events, history, files, nextHistoryId>>
vars == <<streams, events, history, files, nextHistoryId, auditSettings, req, notifs, pending, pre, nreq,
          faults, other>>

IdleReq ==
  [pc |-> "idle", id |-> Null, mergeEventsWithParent |-> Null, stream |-> Null,
   streamAndDescendantIds |-> {}, parentId |-> Null, hasLinkedEvents |-> FALSE,
   cursor |-> <<>>, result |-> [kind |-> "none", id |-> Null, trashed |-> Null],
   error |-> "none"]

Snapshot == [streams |-> streams, events |-> events, history |-> history, files |-> files]

----------------------------------------------------------------------------
(* Initial state *)

InitialParent ==
  [s \in StreamIds |-> CASE s = "A" -> Null
                         [] s = "A/B" -> "A"
                         [] s = "A/B/C" -> "A/B"
                         [] OTHER -> Null]

\* The streams are the chain A > A/B > A/B/C and the root X; the streams of the
\* chain are all untrashed or all trashed, X has trashed = false.  e1 has any
\* memberships, attachments and history rows; e2 (when present) has neither
\* attachments nor history.  The other tenant has documents with the same ids.
Init ==
  /\ \E t \in {Null, "true"} :
       streams = [s \in StreamIds |->
                    [parentId |-> InitialParent[s], trashed |-> IF s = "X" THEN "false" ELSE t]]
  /\ \E m1 \in Memberships(StreamIds, MaxStreamIds), E2 \in {{}, {<<"X">>}, {<<"A/B/C">>}} :
       /\ events = [e \in {"e1"} \cup {"e2" : m \in E2} |->
                      IF e = "e1" THEN [streamIds |-> m1, attachments |-> TRUE]
                      ELSE [streamIds |-> CHOOSE m \in E2 : TRUE, attachments |-> FALSE]]
       /\ history = {[id |-> i, headId |-> "e1", streamIds |-> m1, attachments |-> TRUE, min |-> FALSE] :
                       i \in 1..MaxHistory}
       /\ files = {"e1"}
       /\ nextHistoryId = MaxHistory + 1
  /\ auditSettings \in [deletionMode : DeletionModes, forceKeepHistory : BOOLEAN]
  /\ req = [r \in Slots |-> IdleReq]
  /\ notifs = [r \in Slots |-> <<>>]
  /\ pending = {}
  /\ pre = [r \in Slots |-> Snapshot]
  /\ nreq = 0
  /\ faults = {}
  /\ other = Snapshot

----------------------------------------------------------------------------
(* Storage queries and updates, as the method passes them to the storage *)

\* treeUtils.findById + treeUtils.collectPluckFromRootItem(streamToDelete, 'id'):
\* the stream and all its descendants in the tree of the given streams
RECURSIVE collectPluckFromRootItem(_, _)
collectPluckFromRootItem(ss, root) ==
  {root} \cup UNION {collectPluckFromRootItem(ss, c) : c \in {x \in DOMAIN ss : ss[x].parentId = root}}

\* { streamIds: { $in: ids } }
StreamIdsIn(ev, ids) == \E i \in DOMAIN ev.streamIds : ev.streamIds[i] \in ids

\* { headId: { $exists: false } }: the record is no history row
NoHeadId(doc) == "headId" \notin DOMAIN doc

\* userEventsStorage.find / findStreamed: live events only (records with a
\* headId and deleted events are not returned), in cursor order
RECURSIVE CursorIn(_, _, _)
CursorIn(evs, order, matching) ==
  IF order = <<>> THEN <<>>
  ELSE IF Head(order) \in matching
       THEN <<[id |-> Head(order), streamIds |-> evs[Head(order)].streamIds,
               attachments |-> evs[Head(order)].attachments]>> \o CursorIn(evs, Tail(order), matching)
       ELSE CursorIn(evs, Tail(order), matching)

CursorOver(order, matching) == CursorIn(events, order, matching)

findStreamed(matching) == CursorOver(EventOrder, matching)

\* function arrayAIsIncludedInB (a, b)
arrayAIsIncludedInB(a, b) == \A i \in DOMAIN a : a[i] \in b

\* variant: no event is taken to be attached to a remaining stream
StillAttached_Never(doc, ids) == FALSE

\* the test of the 'data' handlers: the event keeps a stream outside the deleted ones
StillAttached(doc, ids) == Len(doc.streamIds) > 1 /\ ~arrayAIsIncludedInB(doc.streamIds, ids)

\* variant: the filter without `$ne: parentId`
AddParentFilter_WithoutNe(ev, parentId, ids) == StreamIdsIn(ev, ids) /\ NoHeadId(ev)

\* { streamIds: { $ne: parentId, $in: streamAndDescendantIds }, headId: { $exists: false } }
AddParentFilter(ev, parentId, ids) ==
  /\ \A i \in DOMAIN ev.streamIds : ev.streamIds[i] # parentId
  /\ StreamIdsIn(ev, ids)
  /\ NoHeadId(ev)

\* { 'streamIds.$': parentId }: sets the first element matched by the filter
FirstIn(s, ids) == CHOOSE i \in DOMAIN s : s[i] \in ids /\ \A j \in 1..(i - 1) : s[j] \notin ids

AddParentUpdate(ev, parentId, ids) ==
  [ev EXCEPT !.streamIds = [@ EXCEPT ![FirstIn(@, ids)] = parentId]]

\* variant: the filter without `headId: { $exists: false }`
PullFilter_AnyRecord(ev, ids) == StreamIdsIn(ev, ids)

\* { streamIds: { $in: streamAndDescendantIds }, headId: { $exists: false } }
PullFilter(ev, ids) == StreamIdsIn(ev, ids) /\ NoHeadId(ev)

\* variant: an update that removes one matching element only
PullUpdate_FirstOnly(ev, ids) ==
  [ev EXCEPT !.streamIds = [i \in 1..(Len(@) - 1) |-> IF i < FirstIn(@, ids) THEN @[i] ELSE @[i + 1]]]

\* { $pull: { streamIds: { $in: streamAndDescendantIds } } }
PullUpdate(ev, ids) ==
  [ev EXCEPT !.streamIds = SelectSeq(@, LAMBDA x : x \notin ids)]

\* variant: keep-everything selects the events with all memberships in the deleted streams
DeleteEventsFilter_AllInside(ev, ids, deletionMode) ==
  /\ NoHeadId(ev)
  /\ IF deletionMode = "keep-everything"
     THEN arrayAIsIncludedInB(ev.streamIds, ids)
     ELSE ev.streamIds = <<>>

\* variant: the streamless events are selected in every deletion mode
DeleteEventsFilter_EmptyOnly(ev, ids, deletionMode) == NoHeadId(ev) /\ ev.streamIds = <<>>

\* the filter of deleteEvents: { headId: { $exists: false }, streamIds: ... }
DeleteEventsFilter(ev, ids, deletionMode) ==
  /\ NoHeadId(ev)
  /\ IF deletionMode = "keep-everything"
     THEN StreamIdsIn(ev, ids)
     ELSE ev.streamIds = <<>>

\* variant: { id: params.id }
DeleteStreamsFilter_TargetOnly(id, target, ids) == id = target

\* { id: { $in: streamAndDescendantIds } }
DeleteStreamsFilter(id, target, ids) == id \in ids

\* variant: the update leaves `trashed` out
TrashedUpdate_NotSet(stream) == stream

\* var updatedData = { trashed: true }
TrashedUpdate(stream) == [stream EXCEPT !.trashed = "true"]

\* variant: no check of the root stream
RootMergeRejected_Never(mergeEventsWithParent, parentId) == FALSE

\* params.mergeEventsWithParent === true && parentId == null
RootMergeRejected(mergeEventsWithParent, parentId) ==
  mergeEventsWithParent = "true" /\ parentId = Null

\* variant: no check of the missing parameter
DispositionMissing_Never(hasLinkedEvents, mergeEventsWithParent) == FALSE

\* hasLinkedEvents && params.mergeEventsWithParent === null
DispositionMissing(hasLinkedEvents, mergeEventsWithParent) ==
  hasLinkedEvents /\ mergeEventsWithParent = Null

\* variant: the copy is made without the streamIds of the event
eventToVersion_NoStreamIds(event) ==
  [headId |-> event.id, streamIds |-> <<>>, attachments |-> event.attachments]

\* eventToVersion = _.extend(event, { headId: event.id }); delete eventToVersion.id
eventToVersion(event) ==
  [headId |-> event.id, streamIds |-> event.streamIds, attachments |-> event.attachments]

\* a write of a 'data' handler; hid is the id the storage gives an inserted record
WriteAt(r, op, eventId, doc, hid) ==
  [slot |-> r, op |-> op, event |-> eventId, hid |-> hid,
   streamIds |-> doc.streamIds, attachments |-> doc.attachments]

\* the write of the 'data' handler of generateLogIfNecessary for `event`
insertOneWrites(r, event, hid) ==
  {WriteAt(r, "insertOne", eventToVersion(event).headId, eventToVersion(event), hid)}

\* the write of the 'data' handler of handleHistory for `head`, if it issues one
historyWrites(r, head, ids, deletionMode) ==
  IF deletionMode = "keep-authors"
  THEN {WriteAt(r, "minimizeEventsHistory", head.id, head, 0)}
  ELSE IF StillAttached(head, ids)
  THEN {}
  ELSE {WriteAt(r, "removeMany", head.id, head, 0)}

\* the write of the 'data' handler of deleteEventsWithAttachments for `event`, if any
removeAllForEventWrites(r, event, ids) ==
  IF StillAttached(event, ids)
  THEN {}
  ELSE {WriteAt(r, "removeAllForEvent", event.id, event, 0)}

----------------------------------------------------------------------------
(* The collections hold the documents of every tenant; a storage call is   *)
(* made for a user and reaches the documents of that user.  `streams`,      *)
(* `events`, `history`, `files` are the documents of tenant U, whose        *)
(* requests the model runs; `other` holds those of tenant V.                *)

\* variant: the storage calls are made for another user
contextUser_Other(r) == "V"

\* context.user, the first argument of every storage call of the method
contextUser(r) == "U"

\* variant: a storage call reaches the documents of every tenant
Scoped_AnyOwner(user, owner) == TRUE

\* the storage applies a call made for `user` to the documents of `owner`
Scoped(user, owner) == user = owner

\* the documents of `owner` after a storage call of the request in slot r
ForTenant(r, owner, before, after) ==
  IF Scoped(contextUser(r), owner) THEN after ELSE before

\* userStreamsStorage.updateOne(context.user, { id: params.id }, updatedData)
updateOneTrashed(S, id) ==
  [S EXCEPT !.streams = IF id \in DOMAIN S.streams
                        THEN [S.streams EXCEPT ![id] = TrashedUpdate(S.streams[id])]
                        ELSE S.streams]

\* userEventsStorage.updateMany(context.user, <AddParentFilter>, { 'streamIds.$': parentId })
updateManyAddParent(S, parentId, ids) ==
  [S EXCEPT !.events = [e \in DOMAIN S.events |->
                          IF AddParentFilter(S.events[e], parentId, ids)
                          THEN AddParentUpdate(S.events[e], parentId, ids)
                          ELSE S.events[e]],
            !.history = {IF AddParentFilter(h, parentId, ids)
                         THEN AddParentUpdate(h, parentId, ids)
                         ELSE h : h \in S.history}]

\* userEventsStorage.updateMany(context.user, <PullFilter>, { $pull: ... })
updateManyPull(S, ids) ==
  [S EXCEPT !.events = [e \in DOMAIN S.events |->
                          IF PullFilter(S.events[e], ids)
                          THEN PullUpdate(S.events[e], ids)
                          ELSE S.events[e]],
            !.history = {IF PullFilter(h, ids) THEN PullUpdate(h, ids) ELSE h : h \in S.history}]

\* userEventsStorage.delete(context.user, filter, auditSettings.deletionMode)
deleteEventsMatching(S, ids, deletionMode) ==
  [S EXCEPT !.events = [e \in {x \in DOMAIN S.events :
                                  ~DeleteEventsFilter(S.events[x], ids, deletionMode)} |->
                          S.events[e]],
            !.history = {h \in S.history : ~DeleteEventsFilter(h, ids, deletionMode)}]

\* userStreamsStorage.delete(context.user, { id: { $in: streamAndDescendantIds } })
deleteStreamsMatching(S, id, ids) ==
  [S EXCEPT !.streams = [s \in {x \in DOMAIN S.streams : ~DeleteStreamsFilter(x, id, ids)} |->
                           S.streams[s]]]

\* the write of a 'data' handler, once the storage carries it out:
\* insertOne(user, eventToVersion), minimizeEventsHistory(user, head.id),
\* removeMany(user, { headId: head.id }), removeAllForEvent(user, event.id)
ApplyWrite(S, w) ==
  [S EXCEPT !.history =
              CASE w.op = "insertOne" ->
                     S.history \cup {[id |-> w.hid, headId |-> w.event, streamIds |-> w.streamIds,
                                      attachments |-> w.attachments, min |-> FALSE]}
                [] w.op = "minimizeEventsHistory" ->
                     {IF h.headId = w.event
                      THEN [h EXCEPT !.streamIds = <<>>, !.attachments = FALSE, !.min = TRUE]
                      ELSE h : h \in S.history}
                [] w.op = "removeMany" -> {h \in S.history : h.headId # w.event}
                [] OTHER -> S.history,
            !.files = IF w.op = "removeAllForEvent" THEN S.files \ {w.event} ELSE S.files]

\* the documents of tenant U become those of S
Put(S) ==
  /\ streams' = S.streams
  /\ events' = S.events
  /\ history' = S.history
  /\ files' = S.files

\* a storage call of the request in slot r that takes tenant U's documents
\* to U and tenant V's documents to V (each by the same filter and update)
Commit(r, U, V) ==
  /\ Put(ForTenant(r, "U", Snapshot, U))
  /\ other' = ForTenant(r, "V", other, V)

----------------------------------------------------------------------------
(* A request run alone: the collections S after a streams.delete request   *)
(* for `id` of which no storage call fails, once the storage has carried    *)
(* out every write.  The steps are those of deleteStream, flagAsTrashed and *)
(* deleteWithData, applied one after the other.                             *)

RECURSIVE ApplyWrites(_, _)
ApplyWrites(S, ws) ==
  IF ws = {} THEN S
  ELSE LET w == CHOOSE x \in ws : TRUE
       IN  ApplyWrites(ApplyWrite(S, w), ws \ {w})

\* the id the storage gives the k-th record inserted into `hist`
FreshId(hist, k) ==
  LET used == {h.id : h \in hist} \cup {0}
  IN  (CHOOSE m \in used : \A n \in used : n <= m) + k

\* the writes the 'data' handlers of generateLogIfNecessary issue for a cursor
RECURSIVE copiesOf(_, _, _)
copiesOf(hist, cursor, k) ==
  IF cursor = <<>> THEN {}
  ELSE insertOneWrites("r1", Head(cursor), FreshId(hist, k)) \cup copiesOf(hist, Tail(cursor), k + 1)

LinkedIn(S, ids) == {e \in DOMAIN S.events : StreamIdsIn(S.events[e], ids)}

\* async.series([generateLogIfNecessary, addParentStreamIdIfNeeded, removeStreamdIds])
mergeAlone(S, parentId, ids, settings) ==
  LET cursor == CursorIn(S.events, EventOrder, LinkedIn(S, ids))
      logged == IF settings.forceKeepHistory
                THEN ApplyWrites(S, copiesOf(S.history, cursor, 1))
                ELSE S
  IN  updateManyPull(updateManyAddParent(logged, parentId, ids), ids)

\* async.series([handleHistory, deleteEventsWithAttachments,
\*               removeStreamdIdsFromAllEvents, deleteEvents])
detachAlone(S, ids, settings) ==
  LET cursor == CursorIn(S.events, EventOrder, LinkedIn(S, ids))
      withFiles == CursorIn(S.events, EventOrder,
                            {e \in LinkedIn(S, ids) : S.events[e].attachments})
      handled == IF settings.deletionMode = "keep-everything"
                 THEN S
                 ELSE ApplyWrites(S, UNION {historyWrites("r1", cursor[i], ids, settings.deletionMode) :
                                              i \in DOMAIN cursor})
      reaped == ApplyWrites(handled, UNION {removeAllForEventWrites("r1", withFiles[i], ids) :
                                              i \in DOMAIN withFiles})
      pulled == IF settings.deletionMode = "keep-everything"
                THEN reaped
                ELSE updateManyPull(reaped, ids)
  IN  deleteEventsMatching(pulled, ids, settings.deletionMode)

\* the error of the request run alone ("none": it completes)
errorAlone(S, id, mergeEventsWithParent) ==
  IF id \notin DOMAIN S.streams THEN "unknownResource"
  ELSE IF S.streams[id].trashed = Null THEN "none"
  ELSE LET ids == collectPluckFromRootItem(S.streams, id)
       IN  IF RootMergeRejected(mergeEventsWithParent, S.streams[id].parentId)
           THEN "invalidOperation"
           ELSE IF DispositionMissing(LinkedIn(S, ids) # {}, mergeEventsWithParent)
           THEN "invalidParametersFormat"
           ELSE "none"

SingleRun(S, id, mergeEventsWithParent, settings) ==
  IF errorAlone(S, id, mergeEventsWithParent) # "none" THEN S
  ELSE IF S.streams[id].trashed = Null THEN updateOneTrashed(S, id)
  ELSE LET ids == collectPluckFromRootItem(S.streams, id)
           parentId == S.streams[id].parentId
           handled == IF LinkedIn(S, ids) = {} THEN S
                      ELSE IF mergeEventsWithParent = "true"
                      THEN mergeAlone(S, parentId, ids, settings)
                      ELSE detachAlone(S, ids, settings)
       IN  deleteStreamsMatching(handled, id, ids)

\* history rows are compared without the ids the storage gave them
Shape(h) ==
  [headId |-> h.headId, streamIds |-> h.streamIds, attachments |-> h.attachments, min |-> h.min]

SameHistory(H1, H2) ==
  \A x \in {Shape(h) : h \in H1 \cup H2} :
    Cardinality({h \in H1 : Shape(h) = x}) = Cardinality({h \in H2 : Shape(h) = x})

\* the same streams, live events, history rows and attachments
SameState(S, T) ==
  /\ S.streams = T.streams
  /\ S.events = T.events
  /\ S.files = T.files
  /\ SameHistory(S.history, T.history)

emit(r, what) == notifs' = [notifs EXCEPT ![r] = Append(@, what)]

Fail(r, error) == req' = [req EXCEPT ![r].pc = "done", ![r].error = error]
Goto(r, pc) == req' = [req EXCEPT ![r].pc = pc]

----------------------------------------------------------------------------
(* The request *)

\* api.register('streams.delete', ...): a request arrives with its params.
\* A request is issued once the storage has carried out the writes of the
\* request before it, so that every change seen during a request is its own.
StartRequest(r, id, mergeEventsWithParent) ==
  /\ req[r].pc \in {"idle", "done"}
  /\ nreq < MaxRequests
  /\ pending = {}
  /\ req' = [req EXCEPT ![r] = [IdleReq EXCEPT !.pc = "verifyStreamExistenceAndPermissions",
                                               !.id = id,
                                               !.mergeEventsWithParent = mergeEventsWithParent]]
  /\ notifs' = [notifs EXCEPT ![r] = <<>>]
  /\ pre' = [pre EXCEPT ![r] = Snapshot]
  /\ nreq' = nreq + 1
  /\ faults' = {f \in faults : f.slot # r}
  /\ UNCHANGED <<db, auditSettings, pending, other>>

verifyStreamExistenceAndPermissions(r) ==
  /\ req[r].pc = "verifyStreamExistenceAndPermissions"
  /\ \E canDeleteStream \in BOOLEAN :
       IF req[r].id \notin DOMAIN streams
       THEN Fail(r, "unknownResource")
       ELSE IF ~canDeleteStream
       THEN Fail(r, "forbidden")
       ELSE req' = [req EXCEPT ![r].pc = "deleteStream",
                               ![r].stream = streams[req[r].id].trashed]
  /\ UNCHANGED <<db, auditSettings, notifs, pending, pre, nreq, faults, other>>

deleteStream(r) ==
  /\ req[r].pc = "deleteStream"
  /\ IF req[r].stream = Null
     THEN Goto(r, "flagAsTrashed")
     ELSE Goto(r, "retrieveStreamIdsToDelete")
  /\ UNCHANGED <<db, auditSettings, notifs, pending, pre, nreq, faults, other>>

flagAsTrashed(r) ==
  /\ req[r].pc = "flagAsTrashed"
  /\ req[r].id \in DOMAIN streams
  /\ Commit(r, updateOneTrashed(Snapshot, req[r].id), updateOneTrashed(other, req[r].id))
  /\ req' = [req EXCEPT ![r].pc = "done",
                        ![r].result = [kind |-> "stream", id |-> req[r].id,
                                       trashed |-> streams'[req[r].id].trashed]]
  /\ emit(r, "streams-changed")
  /\ UNCHANGED <<nextHistoryId, auditSettings, pending, pre, nreq, faults>>

retrieveStreamIdsToDelete(r) ==
  /\ req[r].pc = "retrieveStreamIdsToDelete"
  /\ req[r].id \in DOMAIN streams
  /\ req' = [req EXCEPT ![r].pc = "checkIfRootStreamAndLinkedEventsExist",
                        ![r].streamAndDescendantIds = collectPluckFromRootItem(streams, req[r].id),
                        ![r].parentId = streams[req[r].id].parentId]
  /\ UNCHANGED <<db, auditSettings, notifs, pending, pre, nreq, faults, other>>

\* variant: the query also returns the events that have a matching history row
Linked_WithHistory(r) ==
  {e \in DOMAIN events :
     \/ StreamIdsIn(events[e], req[r].streamAndDescendantIds)
     \/ \E h \in history : h.headId = e /\ StreamIdsIn(h, req[r].streamAndDescendantIds)}

\* the events returned for { streamIds: { $in: streamAndDescendantIds } }
Linked(r) == {e \in DOMAIN events : StreamIdsIn(events[e], req[r].streamAndDescendantIds)}

checkIfRootStreamAndLinkedEventsExist(r) ==
  /\ req[r].pc = "checkIfRootStreamAndLinkedEventsExist"
  /\ LET hasLinkedEvents == Linked(r) # {}
     IN  IF RootMergeRejected(req[r].mergeEventsWithParent, req[r].parentId)
         THEN Fail(r, "invalidOperation")
         ELSE IF DispositionMissing(hasLinkedEvents, req[r].mergeEventsWithParent)
         THEN req' = [req EXCEPT ![r].pc = "done", ![r].error = "invalidParametersFormat",
                                 ![r].hasLinkedEvents = hasLinkedEvents]
         ELSE req' = [req EXCEPT ![r].pc = "handleLinkedEvents",
                                 ![r].hasLinkedEvents = hasLinkedEvents]
  /\ UNCHANGED <<db, auditSettings, notifs, pending, pre, nreq, faults, other>>

handleLinkedEvents(r) ==
  /\ req[r].pc = "handleLinkedEvents"
  /\ IF ~req[r].hasLinkedEvents
     THEN Goto(r, "deleteStreams")
     ELSE IF req[r].mergeEventsWithParent = "true"
     THEN Goto(r, "generateLogIfNecessary")
     ELSE Goto(r, "handleHistory")
  /\ UNCHANGED <<db, auditSettings, notifs, pending, pre, nreq, faults, other>>

(* mergeEventsWithParent = true *)

generateLogIfNecessary(r) ==
  /\ req[r].pc = "generateLogIfNecessary"
  /\ IF ~auditSettings.forceKeepHistory
     THEN Goto(r, "addParentStreamIdIfNeeded")
     ELSE req' = [req EXCEPT ![r].pc = "generateLogIfNecessary.stream",
                             ![r].cursor = findStreamed(Linked(r))]
  /\ UNCHANGED <<db, auditSettings, notifs, pending, pre, nreq, faults, other>>

generateLogWrites(r, event) == insertOneWrites(r, event, nextHistoryId)

\* eventsStream.on('data'): insertOne of the copy, not waited for
generateLogOnData(r) ==
  /\ req[r].pc = "generateLogIfNecessary.stream"
  /\ req[r].cursor # <<>>
  /\ pending' = pending \cup generateLogWrites(r, Head(req[r].cursor))
  /\ nextHistoryId' = nextHistoryId + 1
  /\ req' = [req EXCEPT ![r].cursor = Tail(@)]
  /\ UNCHANGED <<streams, events, history, files, auditSettings, notifs, pre, nreq, faults, other>>

\* eventsStream.on('end')
generateLogOnEnd(r) ==
  /\ req[r].pc = "generateLogIfNecessary.stream"
  /\ req[r].cursor = <<>>
  /\ Goto(r, "addParentStreamIdIfNeeded")
  /\ UNCHANGED <<db, auditSettings, notifs, pending, pre, nreq, faults, other>>

addParentStreamIdIfNeeded(r) ==
  /\ req[r].pc = "addParentStreamIdIfNeeded"
  /\ Commit(r, updateManyAddParent(Snapshot, req[r].parentId, req[r].streamAndDescendantIds),
               updateManyAddParent(other, req[r].parentId, req[r].streamAndDescendantIds))
  /\ emit(r, "events-changed")
  /\ Goto(r, "removeStreamdIds")
  /\ UNCHANGED <<nextHistoryId, auditSettings, pending, pre, nreq, faults>>

removeStreamdIds(r) ==
  /\ req[r].pc = "removeStreamdIds"
  /\ Commit(r, updateManyPull(Snapshot, req[r].streamAndDescendantIds),
               updateManyPull(other, req[r].streamAndDescendantIds))
  /\ Goto(r, "deleteStreams")
  /\ UNCHANGED <<nextHistoryId, auditSettings, notifs, pending, pre, nreq, faults>>

(* mergeEventsWithParent = false *)

handleHistory(r) ==
  /\ req[r].pc = "handleHistory"
  /\ IF auditSettings.deletionMode = "keep-everything"
     THEN Goto(r, "deleteEventsWithAttachments")
     ELSE req' = [req EXCEPT ![r].pc = "handleHistory.stream",
                             ![r].cursor = findStreamed(Linked(r))]
  /\ UNCHANGED <<db, auditSettings, notifs, pending, pre, nreq, faults, other>>

handleHistoryWrites(r, head) ==
  historyWrites(r, head, req[r].streamAndDescendantIds, auditSettings.deletionMode)

\* eventsStream.on('data'): minimizeEventsHistory / removeMany, not waited for
handleHistoryOnData(r) ==
  /\ req[r].pc = "handleHistory.stream"
  /\ req[r].cursor # <<>>
  /\ pending' = pending \cup handleHistoryWrites(r, Head(req[r].cursor))
  /\ req' = [req EXCEPT ![r].cursor = Tail(@)]
  /\ UNCHANGED <<db, auditSettings, notifs, pre, nreq, faults, other>>

handleHistoryOnEnd(r) ==
  /\ req[r].pc = "handleHistory.stream"
  /\ req[r].cursor = <<>>
  /\ Goto(r, "deleteEventsWithAttachments")
  /\ UNCHANGED <<db, auditSettings, notifs, pending, pre, nreq, faults, other>>

deleteEventsWithAttachments(r) ==
  /\ req[r].pc = "deleteEventsWithAttachments"
  /\ req' = [req EXCEPT ![r].pc = "deleteEventsWithAttachments.stream",
                        ![r].cursor = findStreamed({e \in Linked(r) : events[e].attachments})]
  /\ UNCHANGED <<db, auditSettings, notifs, pending, pre, nreq, faults, other>>

\* eventsStream.on('data'): removeAllForEvent, not waited for
deleteEventsWithAttachmentsOnData(r) ==
  /\ req[r].pc = "deleteEventsWithAttachments.stream"
  /\ req[r].cursor # <<>>
  /\ pending' = pending \cup removeAllForEventWrites(r, Head(req[r].cursor),
                                                    req[r].streamAndDescendantIds)
  /\ req' = [req EXCEPT ![r].cursor = Tail(@)]
  /\ UNCHANGED <<db, auditSettings, notifs, pre, nreq, faults, other>>

deleteEventsWithAttachmentsOnEnd(r) ==
  /\ req[r].pc = "deleteEventsWithAttachments.stream"
  /\ req[r].cursor = <<>>
  /\ Goto(r, "removeStreamdIdsFromAllEvents")
  /\ UNCHANGED <<db, auditSettings, notifs, pending, pre, nreq, faults, other>>

removeStreamdIdsFromAllEvents(r) ==
  /\ req[r].pc = "removeStreamdIdsFromAllEvents"
  /\ IF auditSettings.deletionMode = "keep-everything"
     THEN UNCHANGED <<streams, events, history, files, other>>
     ELSE Commit(r, updateManyPull(Snapshot, req[r].streamAndDescendantIds),
                    updateManyPull(other, req[r].streamAndDescendantIds))
  /\ Goto(r, "deleteEvents")
  /\ UNCHANGED <<nextHistoryId, auditSettings, notifs, pending, pre, nreq, faults>>

deleteEvents(r) ==
  /\ req[r].pc = "deleteEvents"
  /\ Commit(r, deleteEventsMatching(Snapshot, req[r].streamAndDescendantIds,
                                       auditSettings.deletionMode),
               deleteEventsMatching(other, req[r].streamAndDescendantIds,
                                    auditSettings.deletionMode))
  /\ emit(r, "events-changed")
  /\ Goto(r, "deleteStreams")
  /\ UNCHANGED <<nextHistoryId, auditSettings, pending, pre, nreq, faults>>

deleteStreams(r) ==
  /\ req[r].pc = "deleteStreams"
  /\ Commit(r, deleteStreamsMatching(Snapshot, req[r].id, req[r].streamAndDescendantIds),
               deleteStreamsMatching(other, req[r].id, req[r].streamAndDescendantIds))
  /\ req' = [req EXCEPT ![r].pc = "done",
                        ![r].result = [kind |-> "streamDeletion", id |-> req[r].id, trashed |-> Null]]
  /\ emit(r, "streams-changed")
  /\ UNCHANGED <<nextHistoryId, auditSettings, pending, pre, nreq, faults>>

(* The storage completes a write a 'data' handler issued *)

CompleteWrite(w) ==
  /\ w \in pending
  /\ pending' = pending \ {w}
  /\ Commit(w.slot, ApplyWrite(Snapshot, w), ApplyWrite(other, w))
  /\ UNCHANGED <<nextHistoryId, auditSettings, req, notifs, pre, nreq, faults>>

Step(r) ==
  \/ verifyStreamExistenceAndPermissions(r)
  \/ deleteStream(r)
  \/ flagAsTrashed(r)
  \/ retrieveStreamIdsToDelete(r)
  \/ checkIfRootStreamAndLinkedEventsExist(r)
  \/ handleLinkedEvents(r)
  \/ generateLogIfNecessary(r)
  \/ generateLogOnData(r)
  \/ generateLogOnEnd(r)
  \/ addParentStreamIdIfNeeded(r)
  \/ removeStreamdIds(r)
  \/ handleHistory(r)
  \/ handleHistoryOnData(r)
  \/ handleHistoryOnEnd(r)
  \/ deleteEventsWithAttachments(r)
  \/ deleteEventsWithAttachmentsOnData(r)
  \/ deleteEventsWithAttachmentsOnEnd(r)
  \/ removeStreamdIdsFromAllEvents(r)
  \/ deleteEvents(r)
  \/ deleteStreams(r)

----------------------------------------------------------------------------
(* Storage failures *)

\* the request is at a storage call (a find, an update, a delete) or is
\* reading a stream of records
CallsStorage(r) ==
  \/ req[r].pc \in {"flagAsTrashed", "retrieveStreamIdsToDelete", "addParentStreamIdIfNeeded",
                    "removeStreamdIds", "deleteEventsWithAttachments", "deleteEvents",
                    "deleteStreams", "generateLogIfNecessary.stream", "handleHistory.stream",
                    "deleteEventsWithAttachments.stream"}
  \/ /\ req[r].pc = "checkIfRootStreamAndLinkedEventsExist"
     /\ ~RootMergeRejected(req[r].mergeEventsWithParent, req[r].parentId)
  \/ req[r].pc = "generateLogIfNecessary" /\ auditSettings.forceKeepHistory
  \/ /\ req[r].pc \in {"handleHistory", "removeStreamdIdsFromAllEvents"}
     /\ auditSettings.deletionMode # "keep-everything"

\* if (err) { return stepDone(errors.unexpectedError(err)); } and
\* eventsStream.on('error'): the call changes nothing, the request ends
StorageError(r) ==
  /\ CallsStorage(r)
  /\ req' = [req EXCEPT ![r].pc = "done", ![r].error = "unexpectedError", ![r].cursor = <<>>]
  /\ faults' = faults \cup {[slot |-> r, n |-> nreq, op |-> req[r].pc, event |-> Null]}
  /\ UNCHANGED <<db, auditSettings, notifs, pending, pre, nreq, other>>

\* variant: every callback hands its error to subStepDone
ReportsError_Always(op) == TRUE

\* whether the callback of a write hands its error to subStepDone: the one of
\* removeAllForEvent only logs it
ReportsError(op) == op # "removeAllForEvent"

\* the streamed step whose 'data' handler issues the writes `op`
StreamOf(op) ==
  CASE op = "insertOne" -> "generateLogIfNecessary.stream"
    [] op \in {"minimizeEventsHistory", "removeMany"} -> "handleHistory.stream"
    [] OTHER -> "deleteEventsWithAttachments.stream"

\* A write of a 'data' handler fails.  While the stream is being read the
\* callback ends the request with subStepDone(errors.unexpectedError(err)),
\* and the stream goes on delivering its records.  Once the request has
\* answered, the error reaches nobody.  (A failure between the end of the
\* stream and the answer calls subStepDone a second time, as does the end of
\* the stream after a failure: see FailWriteLate and endAfterFailure.)
FailWrite(w) ==
  /\ w \in pending
  /\ ReportsError(w.op) => req[w.slot].pc \in {StreamOf(w.op), "done"}
  /\ pending' = pending \ {w}
  /\ faults' = faults \cup {[slot |-> w.slot, n |-> nreq, op |-> w.op, event |-> w.event]}
  /\ IF ReportsError(w.op) /\ req[w.slot].pc = StreamOf(w.op)
     THEN req' = [req EXCEPT ![w.slot].pc = "done", ![w.slot].error = "unexpectedError"]
     ELSE req' = req
  /\ UNCHANGED <<db, auditSettings, notifs, pre, nreq, other>>

\* eventsStream.on('data') after a write of the same stream has ended the
\* request: the handler still issues its write
dataAfterError(r) ==
  /\ req[r].pc = "done"
  /\ req[r].error = "unexpectedError"
  /\ req[r].cursor # <<>>
  /\ IF req[r].mergeEventsWithParent = "true"
     THEN /\ pending' = pending \cup generateLogWrites(r, Head(req[r].cursor))
          /\ nextHistoryId' = nextHistoryId + 1
     ELSE /\ pending' = pending \cup handleHistoryWrites(r, Head(req[r].cursor))
          /\ nextHistoryId' = nextHistoryId
  /\ req' = [req EXCEPT ![r].cursor = Tail(@)]
  /\ UNCHANGED <<streams, events, history, files, auditSettings, notifs, pre, nreq, faults, other>>

\* the client issues the request that ended with an unexpected error again,
\* with the same parameters; `pre` keeps the collections as the first issue
\* found them, `faults` the failed writes of the 'data' handlers (as of issue 0)
Reissue(r) ==
  /\ req[r].pc = "done"
  /\ req[r].error = "unexpectedError"
  /\ req[r].cursor = <<>>
  /\ pending = {}
  /\ nreq < MaxRequests
  /\ req' = [req EXCEPT ![r] = [IdleReq EXCEPT !.pc = "verifyStreamExistenceAndPermissions",
                                               !.id = req[r].id,
                                               !.mergeEventsWithParent = req[r].mergeEventsWithParent]]
  /\ notifs' = [notifs EXCEPT ![r] = <<>>]
  /\ nreq' = nreq + 1
  /\ faults' = {[f EXCEPT !.n = 0] : f \in {g \in faults : g.event # Null}}
  /\ UNCHANGED <<db, auditSettings, pending, pre, other>>

----------------------------------------------------------------------------
(* Specifications *)

\* requests run one at a time, in slot r1
Next ==
  \/ \E id \in StreamIds, m \in MergeValues : StartRequest("r1", id, m)
  \/ Step("r1")
  \/ \E w \in pending : CompleteWrite(w)

Spec == Init /\ [][Next]_vars

\* The initial states of Init in which e1 is in A/B, in X or in both, and e2
\* is in A/B/C.
InitFaults ==
  /\ Init
  /\ events["e1"].streamIds \in Memberships({"A/B", "X"}, MaxStreamIds)
  /\ "e2" \in DOMAIN events
  /\ events["e2"].streamIds = <<"A/B/C">>

\* one request, whose storage calls may fail, and its re-issues
NextFaults ==
  \/ \E id \in StreamIds, m \in MergeValues : nreq = 0 /\ StartRequest("r1", id, m)
  \/ Step("r1")
  \/ \E w \in pending : CompleteWrite(w)
  \/ StorageError("r1")
  \/ \E w \in pending : FailWrite(w)
  \/ dataAfterError("r1")
  \/ Reissue("r1")

SpecFaults == InitFaults /\ [][NextFaults]_vars

\* A request arrives while another one may be in progress: nothing in the
\* method makes a request wait for another.  The requests are for streams
\* whose closure sets are disjoint; the one in slot r1 arrives first.
StartConcurrent(r, id, mergeEventsWithParent) ==
  /\ req[r].pc = "idle"
  /\ r = "r2" => req["r1"].pc # "idle"
  /\ \A q \in Slots \ {r} :
       req[q].pc # "idle" =>
         collectPluckFromRootItem(pre[q].streams, id)
           \cap collectPluckFromRootItem(pre[q].streams, req[q].id) = {}
  /\ req' = [req EXCEPT ![r] = [IdleReq EXCEPT !.pc = "verifyStreamExistenceAndPermissions",
                                               !.id = id,
                                               !.mergeEventsWithParent = mergeEventsWithParent]]
  /\ notifs' = [notifs EXCEPT ![r] = <<>>]
  /\ pre' = [pre EXCEPT ![r] = Snapshot]
  /\ nreq' = nreq + 1
  /\ UNCHANGED <<db, auditSettings, pending, faults, other>>

\* two requests of the same tenant, their steps interleaved in any order
NextConcurrent ==
  \/ \E m \in MergeValues : StartConcurrent("r1", "A/B", m)
  \/ \E m \in MergeValues : StartConcurrent("r2", "X", m)
  \/ Step("r1")
  \/ Step("r2")
  \/ \E w \in pending : CompleteWrite(w)

SpecConcurrent == InitFaults /\ [][NextConcurrent]_vars

----------------------------------------------------------------------------
(* The two membership updates of the merge path, applied again              *)

\* addParentStreamIdIfNeeded, then removeStreamdIds, on the collections S
mergePair(S, parentId, ids) == updateManyPull(updateManyAddParent(S, parentId, ids), ids)

\* the updateMany of addParentStreamIdIfNeeded has reached one of the
\* documents its filter selects, and not yet the others
updateManyAddParentOne(r, e) ==
  /\ req[r].pc = "addParentStreamIdIfNeeded"
  /\ e \in DOMAIN events
  /\ AddParentFilter(events[e], req[r].parentId, req[r].streamAndDescendantIds)
  /\ Commit(r, [Snapshot EXCEPT !.events[e] =
                  AddParentUpdate(@, req[r].parentId, req[r].streamAndDescendantIds)], other)
  /\ UNCHANGED <<nextHistoryId, auditSettings, req, notifs, pending, pre, nreq, faults>>

\* the updateMany of removeStreamdIds has reached one of the documents its
\* filter selects, and not yet the others
updateManyPullOne(r, e) ==
  /\ req[r].pc = "removeStreamdIds"
  /\ e \in DOMAIN events
  /\ PullFilter(events[e], req[r].streamAndDescendantIds)
  /\ Commit(r, [Snapshot EXCEPT !.events[e] = PullUpdate(@, req[r].streamAndDescendantIds)], other)
  /\ UNCHANGED <<nextHistoryId, auditSettings, req, notifs, pending, pre, nreq, faults>>

\* the two steps are run again from the first: after an update that stopped
\* part of the way, or after both have completed
RerunMergeSteps(r) ==
  /\ req[r].pc \in {"addParentStreamIdIfNeeded", "removeStreamdIds", "deleteStreams"}
  /\ req[r].mergeEventsWithParent = "true"
  /\ req[r].hasLinkedEvents
  /\ nreq < MaxRequests
  /\ nreq' = nreq + 1
  /\ Goto(r, "addParentStreamIdIfNeeded")
  /\ UNCHANGED <<db, auditSettings, notifs, pending, pre, faults, other>>

\* The initial states of Init with the chain trashed and no history copies
\* to write.
InitMerge ==
  /\ Init
  /\ streams["A/B"].trashed = "true"
  /\ ~auditSettings.forceKeepHistory
  /\ auditSettings.deletionMode = "keep-everything"

\* one hard delete with mergeEventsWithParent = true, up to the removal of
\* the streams
NextMerge ==
  \/ \E id \in {"A/B", "A/B/C"} : nreq = 0 /\ StartRequest("r1", id, "true")
  \/ verifyStreamExistenceAndPermissions("r1")
  \/ deleteStream("r1")
  \/ retrieveStreamIdsToDelete("r1")
  \/ checkIfRootStreamAndLinkedEventsExist("r1")
  \/ handleLinkedEvents("r1")
  \/ generateLogIfNecessary("r1")
  \/ addParentStreamIdIfNeeded("r1")
  \/ removeStreamdIds("r1")
  \/ \E e \in EventIds : updateManyAddParentOne("r1", e)
  \/ \E e \in EventIds : updateManyPullOne("r1", e)
  \/ RerunMergeSteps("r1")

SpecMerge == InitMerge /\ [][NextMerge]_vars

----------------------------------------------------------------------------
(* Two requests for streams of the same branch *)

\* retrieveStreamIdsToDelete when the stream is no longer in the collection:
\* treeUtils.findById returns null and `streamToDelete.parentId` (line 454)
\* throws a TypeError inside the callback of userStreamsStorage.find.  What
\* becomes of an exception thrown there is the caller's affair: it is lost
\* and the request never answers, or it is caught and handed back to the
\* callback as an error.
retrieveStreamIdsToDeleteMissing(r) ==
  /\ req[r].pc = "retrieveStreamIdsToDelete"
  /\ req[r].id \notin DOMAIN streams
  /\ \E caught \in BOOLEAN :
       req' = IF caught
              THEN [req EXCEPT ![r].pc = "done", ![r].error = "unexpectedError"]
              ELSE [req EXCEPT ![r].pc = "thrown"]
  /\ faults' = faults \cup {[slot |-> r, n |-> nreq, op |-> "retrieveStreamIdsToDelete",
                             event |-> Null]}
  /\ UNCHANGED <<db, auditSettings, notifs, pending, pre, nreq, other>>

\* a request arrives while another one may be in progress, for a stream of
\* the same branch; the one in slot r1 arrives first
StartOverlapping(r, id, mergeEventsWithParent) ==
  /\ req[r].pc = "idle"
  /\ r = "r2" => req["r1"].pc # "idle"
  /\ req' = [req EXCEPT ![r] = [IdleReq EXCEPT !.pc = "verifyStreamExistenceAndPermissions",
                                               !.id = id,
                                               !.mergeEventsWithParent = mergeEventsWithParent]]
  /\ notifs' = [notifs EXCEPT ![r] = <<>>]
  /\ pre' = [pre EXCEPT ![r] = Snapshot]
  /\ nreq' = nreq + 1
  /\ UNCHANGED <<db, auditSettings, pending, faults, other>>

\* a delete of A/B/C and a delete of its parent A/B, their steps interleaved
NextOverlapping ==
  \/ \E m \in MergeValues : StartOverlapping("r1", "A/B/C", m)
  \/ \E m \in MergeValues : StartOverlapping("r2", "A/B", m)
  \/ Step("r1")
  \/ Step("r2")
  \/ \E w \in pending : CompleteWrite(w)
  \/ retrieveStreamIdsToDeleteMissing("r1")

SpecOverlapping == InitFaults /\ [][NextOverlapping]_vars

----------------------------------------------------------------------------
(* A write of a 'data' handler fails before the request has answered        *)

\* the stream is still read after a write of its 'data' handler has called
\* subStepDone with an error
FailedStreams == {"generateLogIfNecessary.failed", "handleHistory.failed"}

WhileFailed(pc) ==
  IF pc = "generateLogIfNecessary.stream" THEN "generateLogIfNecessary.failed"
  ELSE "handleHistory.failed"

\* the step async.series starts after the streamed step
StepAfter(pc) ==
  IF pc = "generateLogIfNecessary.failed" THEN "addParentStreamIdIfNeeded"
  ELSE "deleteEventsWithAttachments"

\* subStepDone is called although the step has called it before
calledAgain(r, w) == [slot |-> r, n |-> nreq, op |-> "subStepDone", event |-> w]

\* the callback of insertOne, minimizeEventsHistory or removeMany gets an
\* error while the stream is read: return subStepDone(errors.unexpectedError(err)).
\* The request answers with the error; the stream is not stopped.
FailWriteInStream(w) ==
  /\ w \in pending
  /\ ReportsError(w.op)
  /\ req[w.slot].pc = StreamOf(w.op)
  /\ pending' = pending \ {w}
  /\ faults' = faults \cup {[slot |-> w.slot, n |-> nreq, op |-> w.op, event |-> w.event]}
  /\ req' = [req EXCEPT ![w.slot].pc = WhileFailed(@), ![w.slot].error = "unexpectedError"]
  /\ UNCHANGED <<db, auditSettings, notifs, pre, nreq, other>>

\* eventsStream.on('data') after that: the handler still issues its write
dataAfterFailure(r) ==
  /\ req[r].pc \in FailedStreams
  /\ req[r].cursor # <<>>
  /\ IF req[r].pc = "generateLogIfNecessary.failed"
     THEN /\ pending' = pending \cup generateLogWrites(r, Head(req[r].cursor))
          /\ nextHistoryId' = nextHistoryId + 1
     ELSE /\ pending' = pending \cup handleHistoryWrites(r, Head(req[r].cursor))
          /\ nextHistoryId' = nextHistoryId
  /\ req' = [req EXCEPT ![r].cursor = Tail(@)]
  /\ UNCHANGED <<streams, events, history, files, auditSettings, notifs, pre, nreq, faults, other>>

\* eventsStream.on('end') after that: subStepDone() is called a second time.
\* What async.series does with a second call depends on its version: it
\* throws ("Callback was already called"), or it goes on with the next step
\* of the series, the request having answered already.
endAfterFailure(r) ==
  /\ req[r].pc \in FailedStreams
  /\ req[r].cursor = <<>>
  /\ faults' = faults \cup {calledAgain(r, Null)}
  /\ \E thrown \in BOOLEAN :
       req' = [req EXCEPT ![r].pc = IF thrown THEN "thrown" ELSE StepAfter(@)]
  /\ UNCHANGED <<db, auditSettings, notifs, pending, pre, nreq, other>>

\* the callback of such a write gets its error when the stream has ended, or
\* after another write has failed, and the series has not finished:
\* subStepDone(errors.unexpectedError(err)) is a second call
FailWriteLate(w) ==
  /\ w \in pending
  /\ ReportsError(w.op)
  /\ req[w.slot].pc \notin {StreamOf(w.op), "done", "thrown", "idle"}
  /\ pending' = pending \ {w}
  /\ faults' = faults \cup {[slot |-> w.slot, n |-> nreq, op |-> w.op, event |-> w.event],
                            calledAgain(w.slot, w.event)}
  /\ \E thrown \in BOOLEAN :
       req' = IF thrown THEN [req EXCEPT ![w.slot].pc = "thrown"]
              ELSE [req EXCEPT ![w.slot].error = "unexpectedError"]
  /\ UNCHANGED <<db, auditSettings, notifs, pre, nreq, other>>

\* one request; the writes of its 'data' handlers may fail before it answers
NextCallbacks ==
  \/ \E id \in StreamIds, m \in MergeValues : nreq = 0 /\ StartRequest("r1", id, m)
  \/ Step("r1")
  \/ \E w \in pending : CompleteWrite(w)
  \/ \E w \in pending : FailWriteInStream(w)
  \/ dataAfterFailure("r1")
  \/ endAfterFailure("r1")
  \/ \E w \in pending : FailWriteLate(w)

SpecCallbacks == InitFaults /\ [][NextCallbacks]_vars

----------------------------------------------------------------------------
(* History rows of an event that was moved to other streams                 *)

\* As Init, but e1 was in streams of the chain before and is in A or in X
\* now: its history rows carry the streamIds it had.
InitMoved ==
  /\ \E t \in {Null, "true"} :
       streams = [s \in StreamIds |->
                    [parentId |-> InitialParent[s], trashed |-> IF s = "X" THEN "false" ELSE t]]
  /\ \E m1 \in Memberships({"A", "X"}, MaxStreamIds),
        mh \in Memberships({"A/B", "A/B/C", "X"}, MaxStreamIds),
        E2 \in {{}, {<<"A/B/C">>}} :
       /\ events = [e \in {"e1"} \cup {"e2" : m \in E2} |->
                      IF e = "e1" THEN [streamIds |-> m1, attachments |-> TRUE]
                      ELSE [streamIds |-> CHOOSE m \in E2 : TRUE, attachments |-> FALSE]]
       /\ history = {[id |-> i, headId |-> "e1", streamIds |-> mh, attachments |-> TRUE, min |-> FALSE] :
                       i \in 1..MaxHistory}
       /\ files = {"e1"}
       /\ nextHistoryId = MaxHistory + 1
  /\ auditSettings \in [deletionMode : DeletionModes, forceKeepHistory : BOOLEAN]
  /\ req = [r \in Slots |-> IdleReq]
  /\ notifs = [r \in Slots |-> <<>>]
  /\ pending = {}
  /\ pre = [r \in Slots |-> Snapshot]
  /\ nreq = 0
  /\ faults = {}
  /\ other = Snapshot

\* one request
NextMoved ==
  \/ \E id \in StreamIds, m \in MergeValues : nreq = 0 /\ StartRequest("r1", id, m)
  \/ Step("r1")
  \/ \E w \in pending : CompleteWrite(w)

SpecMoved == InitMoved /\ [][NextMoved]_vars

----------------------------------------------------------------------------
(* A request after a request that failed (SpecAfterError)                   *)

\* Requests run one at a time in slot r1 and their storage calls may fail:
\* a request that ended with an unexpected error leaves the collections as
\* its last successful step left them, and the next request, for any stream,
\* starts from there.
NextAfterError ==
  \/ \E id \in StreamIds, m \in MergeValues : StartRequest("r1", id, m)
  \/ Step("r1")
  \/ \E w \in pending : CompleteWrite(w)
  \/ StorageError("r1")

SpecAfterError == InitFaults /\ [][NextAfterError]_vars

----------------------------------------------------------------------------
(* Properties of a request, stated on the request in slot r1 *)

R == req["r1"]
P == pre["r1"]
N == notifs["r1"]

\* the streams of `ss` that have `s` among their ancestors, and `s` itself
RECURSIVE HasAncestorOrSelf(_, _, _)
HasAncestorOrSelf(ss, d, s) ==
  \/ d = s
  \/ /\ d \in DOMAIN ss
     /\ ss[d].parentId \in DOMAIN ss
     /\ HasAncestorOrSelf(ss, ss[d].parentId, s)

\* the closure set of the request, in the streams as the request found them
ClosureSet == {d \in DOMAIN P.streams : HasAncestorOrSelf(P.streams, d, R.id)}

Inside(e) == {P.events[e].streamIds[i] : i \in DOMAIN P.events[e].streamIds} \cap ClosureSet
Outside(e) == {P.events[e].streamIds[i] : i \in DOMAIN P.events[e].streamIds} \ ClosureSet
\* the live events that referenced the closure set when the request arrived
Referencing == {e \in DOMAIN P.events : Inside(e) # {}}

Occurrences(s, x) == Cardinality({i \in DOMAIN s : s[i] = x})

\* an authorised request for an existing stream
Admitted == R.pc # "idle" /\ R.id \in DOMAIN P.streams /\ R.error # "forbidden"
\* the request did not take the trash branch
HardDelete == Admitted /\ P.streams[R.id].trashed # Null
Done == R.pc = "done"
\* the request ended with { streamDeletion: { id } }
Completed == Done /\ R.error = "none" /\ R.result.kind = "streamDeletion"

CollectionsUntouched ==
  streams = P.streams /\ events = P.events /\ history = P.history /\ files = P.files

C2_ClosureRemoved ==
  (Admitted /\ P.streams[R.id].trashed = "true" /\ Done /\ R.error = "none") =>
    /\ DOMAIN streams = DOMAIN P.streams \ ClosureSet
    /\ \A s \in DOMAIN streams : streams[s] = P.streams[s]
    /\ R.result = [kind |-> "streamDeletion", id |-> R.id, trashed |-> Null]
    /\ \A s \in DOMAIN streams : streams[s].parentId # Null => streams[s].parentId \in DOMAIN streams

C2_Witness ==
  /\ Completed /\ R.id = "A/B" /\ P.streams["A/B"].trashed = "true"
  /\ DOMAIN P.streams = StreamIds
  /\ DOMAIN streams = {"A", "X"}

\* C3: a hard delete with mergeEventsWithParent = null fails with the
\* missing-disposition error (invalid parameters format) whenever a live event
\* references a stream of the closure set; the request then changes no stream,
\* event, history row or attachment, and emits no notification.
C3_MissingDisposition ==
  (HardDelete /\ R.mergeEventsWithParent = Null /\ Referencing # {}) =>
    /\ CollectionsUntouched /\ pending = {} /\ N = <<>>
    /\ R.pc \in {"verifyStreamExistenceAndPermissions", "deleteStream",
                 "retrieveStreamIdsToDelete", "checkIfRootStreamAndLinkedEventsExist", "done"}
    /\ Done => R.error = "invalidParametersFormat" /\ R.result.kind = "none"

C3_Witness ==
  /\ Done /\ R.error = "invalidParametersFormat" /\ R.id = "A"
  /\ R.mergeEventsWithParent = Null
  /\ "e1" \in DOMAIN events /\ events["e1"].streamIds = <<"A/B/C">>

\* C4: a hard delete with mergeEventsWithParent = true on a stream whose
\* parentId is null fails with InvalidOperation, whether or not an event is
\* linked; the request then changes no stream, event, history row or attachment.
C4_RootMergeRejected ==
  (HardDelete /\ R.mergeEventsWithParent = "true" /\ P.streams[R.id].parentId = Null) =>
    /\ CollectionsUntouched /\ pending = {} /\ N = <<>>
    /\ R.pc \in {"verifyStreamExistenceAndPermissions", "deleteStream",
                 "retrieveStreamIdsToDelete", "checkIfRootStreamAndLinkedEventsExist", "done"}
    /\ Done => R.error = "invalidOperation" /\ R.result.kind = "none"

\* the rejection with no event linked to the closure set
C4_Witness ==
  /\ Done /\ R.error = "invalidOperation" /\ R.id = "X"
  /\ R.mergeEventsWithParent = "true"
  /\ Referencing = {} /\ DOMAIN events = {"e1", "e2"}

\* C5: after a completed hard delete with mergeEventsWithParent = true of a
\* stream with parent p, every live event that had a membership in the closure
\* set still exists and its streamIds (a) contains no id of the closure set,
\* (b) contains p exactly once, (c) contains every membership it had outside
\* the closure set; an event with streamIds = ["A/B"] becomes ["A"] when "A/B",
\* child of "A", is deleted.
C5_MergeIntoParent ==
  (Completed /\ R.mergeEventsWithParent = "true") =>
    \A e \in Referencing :
      /\ e \in DOMAIN events
      /\ Elems(events[e].streamIds) \cap ClosureSet = {}
      /\ Occurrences(events[e].streamIds, P.streams[R.id].parentId) = 1
      /\ Outside(e) \subseteq Elems(events[e].streamIds)
      /\ (R.id = "A/B" /\ P.events[e].streamIds = <<"A/B">>) => events[e].streamIds = <<"A">>

C5_Witness ==
  /\ Completed /\ R.mergeEventsWithParent = "true" /\ R.id = "A/B"
  /\ "e1" \in Referencing /\ "e2" \in Referencing
  /\ P.events["e1"].streamIds = <<"X", "A/B">> /\ events["e1"].streamIds = <<"X", "A">>
  /\ P.events["e2"].streamIds = <<"A/B/C">> /\ events["e2"].streamIds = <<"A">>

\* C6: after a completed hard delete with mergeEventsWithParent = false under
\* keep-authors or keep-nothing, every live event that had memberships inside
\* and outside the closure set still exists with its former streamIds minus the
\* closure set, and every live event whose memberships were all inside the
\* closure set is no longer a live event.
C6_DetachAndDelete ==
  (Completed /\ R.mergeEventsWithParent = "false"
     /\ auditSettings.deletionMode \in {"keep-authors", "keep-nothing"}) =>
    \A e \in Referencing :
      IF Outside(e) # {}
      THEN /\ e \in DOMAIN events
           /\ events[e].streamIds = SelectSeq(P.events[e].streamIds, LAMBDA x : x \notin ClosureSet)
      ELSE e \notin DOMAIN events

C6_Witness ==
  /\ Completed /\ R.mergeEventsWithParent = "false" /\ R.id = "A/B"
  /\ auditSettings.deletionMode = "keep-nothing"
  /\ P.events["e1"].streamIds = <<"A/B", "X">> /\ "e2" \in DOMAIN P.events
  /\ P.events["e2"].streamIds = <<"A/B/C">>
  /\ DOMAIN events = {"e1"} /\ events["e1"].streamIds = <<"X">>

DeletedEvents == DOMAIN P.events \ DOMAIN events

\* C8: under keep-nothing, after a completed hard delete with
\* mergeEventsWithParent = false no history row exists whose headId is the id
\* of a live event that the request deleted.
C8_NoHistoryOfDeletedEvents ==
  (Completed /\ R.mergeEventsWithParent = "false"
     /\ auditSettings.deletionMode = "keep-nothing") =>
    \A h \in history : h.headId \notin DeletedEvents

\* C9: under keep-authors, after a completed hard delete with
\* mergeEventsWithParent = false every history row of every live event that had
\* a membership in the closure set (with or without memberships outside it)
\* still exists and is in minimized form.  (That the minimization is requested
\* before the event is deleted is the order of handleHistory and deleteEvents.)
C9_HistoryMinimized ==
  (Completed /\ R.mergeEventsWithParent = "false"
     /\ auditSettings.deletionMode = "keep-authors") =>
    \A h \in P.history :
      h.headId \in Referencing =>
        \E k \in history : k.id = h.id /\ k.headId = h.headId /\ k.min

\* C10: after any sequence of delete requests run one at a time, from a state
\* in which every event references only existing streams, no live event has in
\* its streamIds the id of a stream that has no document.
C10_NoDanglingStreamIds ==
  R.pc \in {"idle", "done"} =>
    \A e \in DOMAIN events : Elems(events[e].streamIds) \subseteq DOMAIN streams

\* two hard deletes in a row, the second one reaching streams that live events used
C10_Witness ==
  /\ Completed /\ nreq = 2
  /\ Cardinality(DOMAIN streams) = 1
  /\ Referencing # {}
  /\ DOMAIN events # {}

----------------------------------------------------------------------------
(* Properties of a request whose storage calls may fail (SpecFaults); P is  *)
(* the state the first issue of the request found                           *)

\* the request was issued again after an unexpected error
Reissued == nreq > 1

\* C11: after every completed streams.delete request, also one that stopped
\* with an error after some of its steps and was then issued again and ran to
\* completion, no live event has an empty streamIds: an event whose
\* memberships were all removed has been deleted.
C11_NoStreamlessLiveEvent ==
  (Done /\ R.error = "none") =>
    \A e \in DOMAIN events : events[e].streamIds # <<>>

\* C12: when a hard delete that stopped with a storage error after one of its
\* steps had committed is issued again with the same parameters and completes,
\* the streams, live events, history rows and attachments are those that the
\* request leaves when it runs once without failure.  (Stated for the storage
\* errors of the calls of the steps, in an earlier issue of the request: no
\* write of a 'data' handler has failed.)
C12_RetryConverges ==
  (Reissued /\ Completed /\ pending = {} /\ faults = {}) =>
    SameState(Snapshot, SingleRun(P, R.id, R.mergeEventsWithParent, auditSettings))

\* the storage calls of the current issue of the request that reported an
\* error, the removal of attached files (whose errors are only logged) apart
Reported == {f \in faults : f.slot = "r1" /\ f.n = nreq /\ ReportsError(f.op)}

\* C13: when a storage operation of a hard delete reports an error, the
\* request ends with an unexpected error, the stream documents of the closure
\* set are not removed and no streamDeletion result is produced.
C13_ErrorStopsPipeline ==
  (HardDelete /\ Reported # {}) =>
    /\ R.result.kind # "streamDeletion"
    /\ DOMAIN streams = DOMAIN P.streams
    /\ Done => R.error = "unexpectedError"

\* the stream documents of the closure set have been removed
StreamsRemoved == DOMAIN streams # DOMAIN P.streams

\* C15: within one hard delete the stream documents of the closure set are
\* removed only after every step of the event phase has completed without
\* error, never before or during it: when they are removed, the steps have
\* all run, no write of the event phase is still in progress and none has
\* reported an error.
C15_StreamsRemovedAfterEventPhase ==
  (HardDelete /\ StreamsRemoved) =>
    /\ R.pc = "done" /\ R.error = "none"
    /\ \A w \in pending : ~ (w.slot = "r1" /\ ReportsError(w.op))
    /\ Reported = {}

\* the request takes one of its membership steps: it adds the parent id or
\* pulls the ids of the closure set
MembershipStep ==
  /\ R.pc \in {"addParentStreamIdIfNeeded", "removeStreamdIds", "removeStreamdIdsFromAllEvents"}
  /\ req'["r1"].pc # R.pc

\* C16: the membership steps of a hard delete (adding the parent id, pulling
\* the ids of the closure set) never change the streamIds or any other field
\* of a record that has a headId: every history row is the same after the
\* step as before it, on the merge path and on the detach path.
C16_MembershipStepsKeepHistory == [][MembershipStep => history' = history]_vars

\* the ids of the closure set have been pulled from the live events, and a
\* history row that was there when the request arrived still carries one
C16_Witness ==
  /\ HardDelete
  /\ R.pc \in {"deleteStreams", "deleteEvents"}
  /\ \A e \in DOMAIN events : ~ StreamIdsIn(events[e], R.streamAndDescendantIds)
  /\ \E h \in history \cap P.history : StreamIdsIn(h, R.streamAndDescendantIds)

OnlyAttachmentRemovalFailed ==
  /\ nreq = 1
  /\ faults # {}
  /\ \A f \in faults : f.op = "removeAllForEvent"

\* C18: a failure of the attachment removal for any event never changes the
\* outcome of the delete request: the request result, the deleted events and
\* the deleted streams are the same as when the attachment removal succeeds.
C18_AttachmentFailureHarmless ==
  (Done /\ OnlyAttachmentRemovalFailed) =>
    LET alone == SingleRun(P, R.id, R.mergeEventsWithParent, auditSettings)
    IN  /\ R.error = "none"
        /\ R.result = [kind |-> "streamDeletion", id |-> R.id, trashed |-> Null]
        /\ events = alone.events
        /\ streams = alone.streams

\* the removal of the attached files of an event failed; the request
\* completed and the event is deleted, its files are still there
C18_Witness ==
  /\ Completed /\ OnlyAttachmentRemovalFailed
  /\ \E f \in faults : f.event \in DOMAIN P.events /\ f.event \notin DOMAIN events /\ f.event \in files
  /\ StreamsRemoved

Copies ==
  {[headId |-> h.headId, streamIds |-> h.streamIds, attachments |-> h.attachments, id |-> h.id] :
     h \in history \ P.history}
  \cup {[headId |-> w.event, streamIds |-> w.streamIds, attachments |-> w.attachments, id |-> w.hid] :
          w \in {x \in pending : x.op = "insertOne"}}

\* the stream of generateLogIfNecessary has ended and the series went on
CopiesIssued ==
  R.error = "none" /\ R.pc \in {"addParentStreamIdIfNeeded", "removeStreamdIds", "deleteStreams", "done"}

\* C20: on the merge path with forceKeepHistory, history copies are written
\* for exactly the live events that have a membership in the closure set:
\* each such event gets one new record whose headId is the event's id and
\* whose other fields are the event's fields before the merge (its streamIds
\* included), and no copy is made from a record that is itself a history row.
C20_HistoryCopies ==
  (HardDelete /\ R.mergeEventsWithParent = "true" /\ auditSettings.forceKeepHistory) =>
    /\ \A c \in Copies :
          /\ c.headId \in Referencing
          /\ c.streamIds = P.events[c.headId].streamIds
          /\ c.attachments = P.events[c.headId].attachments
          /\ \A d \in Copies : d.headId = c.headId => d = c
    /\ CopiesIssued => \A e \in Referencing : \E c \in Copies : c.headId = e
    /\ P.history \subseteq history

\* the request completed and the storage inserted a copy for each of two
\* events, one of which had a history row in the closure set already
C20_Witness ==
  /\ Completed /\ R.mergeEventsWithParent = "true" /\ auditSettings.forceKeepHistory
  /\ pending = {}
  /\ Cardinality(Referencing) = 2
  /\ Cardinality(history \ P.history) = 2
  /\ \E h \in P.history : StreamIdsIn(h, ClosureSet)
  /\ \E e \in Referencing : Outside(e) # {}

\* C26: on the merge path with forceKeepHistory, re-issuing a hard delete that
\* was interrupted after the history-copy step does not write a second copy
\* for an event that already received one: after the retry has completed, no
\* merged live event has more than one history copy made by this deletion.
C26_NoSecondCopy ==
  (Reissued /\ Completed /\ R.mergeEventsWithParent = "true" /\ auditSettings.forceKeepHistory
     /\ pending = {}) =>
    \A e \in Referencing : Cardinality({h \in history \ P.history : h.headId = e}) <= 1

----------------------------------------------------------------------------
(* Properties of the completion callbacks (SpecCallbacks) *)

\* C27: every step and sub-step of a hard delete invokes its completion
\* callback exactly once, also when a write of a 'data' handler (history
\* insert, history minimization, history removal) fails while the stream is
\* read or after it has ended: no step calls subStepDone a second time.
C27_CallbacksOnce == \A f \in faults : f.op # "subStepDone"

----------------------------------------------------------------------------
(* Properties of two requests in progress at the same time (SpecConcurrent) *)

BothCompleted ==
  \A r \in Slots : /\ req[r].pc = "done"
                   /\ req[r].error = "none"
                   /\ req[r].result.kind = "streamDeletion"

\* the collections after the request of slot a, then that of slot b, each run
\* alone, from the state the first request found
OneAfterTheOther(a, b) ==
  SingleRun(SingleRun(pre["r1"], req[a].id, req[a].mergeEventsWithParent, auditSettings),
            req[b].id, req[b].mergeEventsWithParent, auditSettings)

\* C14: two hard deletes of the same tenant whose closure sets are disjoint,
\* their steps interleaved in any order, leave the streams, live events,
\* history rows and attachments in a state that the two requests run one after
\* the other, in one of the two orders, also produce.  (Stated for two
\* requests with mergeEventsWithParent = false, once the storage has carried
\* out every write.)
C14_Serializable ==
  (BothCompleted /\ pending = {} /\ \A r \in Slots : req[r].mergeEventsWithParent = "false") =>
    \/ SameState(Snapshot, OneAfterTheOther("r1", "r2"))
    \/ SameState(Snapshot, OneAfterTheOther("r2", "r1"))

----------------------------------------------------------------------------
(* Properties of the merge steps applied again (SpecMerge) *)

NoDuplicate(s) == \A i, j \in DOMAIN s : i # j => s[i] # s[j]

\* C21: the two merge steps (add the parent id, pull the ids of the closure
\* set) are idempotent as a pair: applied again, after a complete run or after
\* a run in which some of the events had been updated by either step, they
\* give every live event the streamIds one complete run gives it, with no
\* membership twice (an event without an id of the closure set is left as it
\* is).
C21_MergePairIdempotent ==
  (HardDelete /\ R.pc \in {"addParentStreamIdIfNeeded", "removeStreamdIds", "deleteStreams"}
     /\ R.mergeEventsWithParent = "true" /\ R.hasLinkedEvents) =>
    LET once == mergePair(P, R.parentId, R.streamAndDescendantIds).events
        again == mergePair(Snapshot, R.parentId, R.streamAndDescendantIds).events
    IN  /\ again = once
        /\ \A e \in DOMAIN again : NoDuplicate(again[e].streamIds)
        /\ R.pc = "deleteStreams" => events = once

\* the two steps were run again and have completed; an event was in two
\* streams of the closure set, or in one and in the parent already
C21_Witness ==
  /\ HardDelete /\ R.pc = "deleteStreams" /\ R.mergeEventsWithParent = "true"
  /\ nreq > 1
  /\ events # P.events
  /\ \E e \in Referencing :
       \/ Cardinality(Inside(e)) = 2
       \/ R.parentId \in Outside(e)

----------------------------------------------------------------------------
(* Further properties of one request (Spec) *)

\* C22: under keep-everything on the detach path, the final event-deletion
\* step selects a live event only if all of its memberships are inside the
\* closure set: a live event with a membership outside the closure set is
\* not deleted and keeps its streamIds.
C22_OutsideMembershipSurvives ==
  (Completed /\ HardDelete /\ R.mergeEventsWithParent = "false"
     /\ auditSettings.deletionMode = "keep-everything") =>
    \A e \in DOMAIN P.events :
      Outside(e) # {} => e \in DOMAIN events /\ events[e].streamIds = P.events[e].streamIds

\* the stream of handleHistory has ended and the series went on
HistoryHandled ==
  /\ R.error = "none"
  /\ R.pc \in {"deleteEventsWithAttachments", "deleteEventsWithAttachments.stream",
               "removeStreamdIdsFromAllEvents", "deleteEvents", "deleteStreams", "done"}

DetachKeepNothing ==
  /\ HardDelete /\ R.mergeEventsWithParent = "false" /\ R.hasLinkedEvents
  /\ auditSettings.deletionMode = "keep-nothing"

\* C23 as stated: under keep-nothing on the detach path the history rows of
\* every event that has a membership in the closure set are deleted, also
\* those of an event that keeps memberships outside the closure set (stated
\* once the storage has carried out every write of the request).
C23_HistoryRemovedUnconditionally ==
  (DetachKeepNothing /\ Completed /\ pending = {}) =>
    \A h \in history : h.headId \notin Referencing

\* C23, amended: under keep-nothing on the detach path the removal of the
\* history rows is requested for every event all of whose memberships are in
\* the closure set; the history rows of an event that keeps a membership
\* outside the closure set are left as they are.
C23_HistoryRemovedUnlessStillAttached ==
  DetachKeepNothing =>
    \A h \in P.history :
      h.headId \in Referencing =>
        IF Outside(h.headId) # {}
        THEN h \in history
        ELSE HistoryHandled =>
               \/ \A k \in history : k.headId # h.headId
               \/ \E w \in pending : w.op = "removeMany" /\ w.event = h.headId

\* a completed request: the event that keeps a membership outside the closure
\* set still has its history rows; another event, all inside, is deleted
C23_Witness ==
  /\ DetachKeepNothing /\ Completed /\ pending = {}
  /\ \E h \in P.history : h.headId \in Referencing /\ Outside(h.headId) # {} /\ h \in history
  /\ \E e \in Referencing : Outside(e) = {} /\ e \notin DOMAIN events

\* C28: hard deletion (removal of stream documents or any change of events)
\* is performed only for a stream whose `trashed` attribute is true when the
\* request arrives: a stream that is not trashed, also one whose attribute is
\* present with the value false, is not hard-deleted by one delete request.
C28_OnlyTrashedHardDeleted ==
  (Admitted /\ (StreamsRemoved \/ events # P.events)) => P.streams[R.id].trashed = "true"

\* the removal of the attached files of event e has been requested
RemovalRequested(e) ==
  \/ e \in P.files /\ e \notin files
  \/ \E w \in pending : w.slot = "r1" /\ w.op = "removeAllForEvent" /\ w.event = e

\* C30: on the detach path, in every deletionMode, the removal of the
\* attachments is requested for a live event if and only if the event is
\* deleted by the same operation: never for an event that survives, and for
\* every deleted event that has attachments.
C30_AttachmentsRemovedIffDeleted ==
  (Completed /\ HardDelete /\ R.mergeEventsWithParent = "false") =>
    \A e \in DOMAIN P.events :
      (P.events[e].attachments /\ e \in P.files) =>
        (RemovalRequested(e) <=> e \notin DOMAIN events)

\* a step that follows a streamed step issues its storage operation
StepAfterStream ==
  /\ R.pc \in {"addParentStreamIdIfNeeded", "removeStreamdIds", "deleteEventsWithAttachments",
               "removeStreamdIdsFromAllEvents", "deleteEvents", "deleteStreams"}
  /\ req'["r1"].pc # R.pc

\* C25: each streamed step (history copies, history minimization, history
\* removal, attachment removal) is a barrier: every write it issued for a
\* record has completed before the next step of the pipeline issues its first
\* storage operation.
C25_StreamedStepsAreBarriers ==
  [][StepAfterStream => \A w \in pending : w.slot # "r1"]_vars

----------------------------------------------------------------------------
(* Properties of a request when history rows carry other streamIds than    *)
(* their event (SpecMoved)                                                  *)

\* history rows carry ids of the closure set, no live event does
OnlyHistoryReferences ==
  /\ HardDelete
  /\ Referencing = {}
  /\ \E h \in P.history : StreamIdsIn(h, ClosureSet)

----------------------------------------------------------------------------
(* Properties of two requests for streams of the same branch                *)
(* (SpecOverlapping)                                                        *)

\* the hard delete in slot r1 computed its closure when its stream was no
\* longer in the collection
TargetWasMissing ==
  \E f \in faults : f.slot = "r1" /\ f.op = "retrieveStreamIdsToDelete"

\* C24: if the target stream is no longer in the stream collection when the
\* hard delete computes its closure (a concurrent delete removed it after
\* this request's existence check), the request fails with a not-found error.
C24_MissingTargetNotFound ==
  TargetWasMissing => R.pc = "done" /\ R.error = "unknownResource"

----------------------------------------------------------------------------
(* Frame of a hard delete (SpecAfterError)                                  *)

\* C31: a hard delete changes nothing outside its closure: every stream whose
\* id is not in the closure set (the parent of the deleted stream included)
\* is unchanged, and every live event that had no membership in the closure
\* set before the request is unchanged and still exists, for every
\* disposition and deletionMode.
C31_NothingOutsideClosure ==
  HardDelete =>
    /\ \A s \in DOMAIN P.streams \ ClosureSet :
         s \in DOMAIN streams /\ streams[s] = P.streams[s]
    /\ \A e \in DOMAIN P.events \ Referencing :
         e \in DOMAIN events /\ events[e] = P.events[e]

============================================================================
